---- MODULE Spec2Model ----
(***************************************************************************)
(* DownloadYTCaptions.py: the timed-text XML to SRT conversion pipeline    *)
(* (parse_youtube_xml_captions, convert_to_srt / format_time) and the      *)
(* three entry points around it (save_custom_captions, download_captions,  *)
(* save_captions).                                                         *)
(*                                                                         *)
(* Strings are sequences of one-character strings.  Python values that can *)
(* be None, an int or a str are tagged records.  A Python float is an IEEE *)
(* binary64 value, held exactly as sign, integer part and FracBits binary  *)
(* fraction digits; every arithmetic step is rounded to MantBits           *)
(* significant bits, ties to even, as the hardware does.                   *)
(***************************************************************************)
EXTENDS Integers, Sequences, FiniteSets, TLC

VARIABLES
    pc,       \* "idle" before the call, "done" after it
    call,     \* the call made: the function and its arguments
    fs,       \* the files: path -> None (no such file) or Str(content)
    outcome,  \* what the caller sees: "returned" or "raised"
    raised,   \* the exception raised during the call, caught or not ("none")
    ret,      \* the value returned
    stdout,   \* the lines printed
    trace,    \* the steps the call went through, in order
    locals    \* the locals of the pipeline when the call ended

vars == <<pc, call, fs, outcome, raised, ret, stdout, trace, locals>>

(***************************************************************************)
(* Python values                                                           *)
(***************************************************************************)
None == [kind |-> "none"]
Str(s) == [kind |-> "str", v |-> s]
IntV(n) == [kind |-> "int", v |-> n]

\* F(v), with v evaluated once, before F is applied (call by value, as Python
\* evaluates an argument or the right-hand side of an assignment)
Bind(v, F(_)) == CHOOSE r \in {F(x) : x \in {v}} : TRUE

(***************************************************************************)
(* binary64 arithmetic                                                     *)
(***************************************************************************)
\* significant bits of a binary64 mantissa
MantBits == 53
\* binary fraction digits kept: every binary64 value x with |x| >= 2^-10
\* (0.001 is the smallest non-zero time) is a multiple of 2^-62
FracBits == 62

ZeroBits == [i \in 1..FracBits |-> 0]

RECURSIVE BitLen(_)
BitLen(n) == IF n = 0 THEN 0 ELSE 1 + BitLen(n \div 2)

\* position of the first 1 of a bit sequence, Len + 1 when there is none
LeadPos(bits) ==
    IF \E i \in 1..Len(bits) : bits[i] = 1
    THEN CHOOSE i \in 1..Len(bits) : bits[i] = 1 /\ \A j \in 1..(i - 1) : bits[j] = 0
    ELSE Len(bits) + 1

MkFloat(neg, ip, fr) ==
    [kind |-> "float", neg |-> neg /\ (ip # 0 \/ fr # ZeroBits), ip |-> ip, fr |-> fr]

\* the last position <= i of bits that holds 0, or 0 when there is none
RECURSIVE LastZero(_, _)
LastZero(bits, i) ==
    IF i = 0 THEN 0 ELSE IF bits[i] = 0 THEN i ELSE LastZero(bits, i - 1)

\* round-to-nearest, ties-to-even, of the magnitude ip + 0.bits (+ a non-zero
\* tail below the last bit when sticky) to MantBits significant bits
RoundMag(neg, ip, bits, sticky) ==
    LET n == Len(bits)
        keep == IF ip > 0 THEN MantBits - BitLen(ip) ELSE LeadPos(bits) + MantBits - 1
        kept == [i \in 1..FracBits |-> IF i <= keep /\ i <= n THEN bits[i] ELSE 0]
        guard == IF keep + 1 <= n THEN bits[keep + 1] ELSE 0
        rest == sticky \/ \E j \in (keep + 2)..n : bits[j] = 1
        lsb == IF keep = 0 THEN ip % 2 ELSE IF keep <= n THEN bits[keep] ELSE 0
        up == guard = 1 /\ (rest \/ lsb = 1)
        \* one unit in the last kept place more: the carry stops at the last 0
        z == LastZero(kept, IF keep < FracBits THEN keep ELSE FracBits)
        incr == [i \in 1..FracBits |-> IF i < z THEN kept[i] ELSE IF i = z THEN 1 ELSE 0]
    IN IF up THEN MkFloat(neg, IF z = 0 THEN ip + 1 ELSE ip, incr)
       ELSE MkFloat(neg, ip, kept)

\* float(n) for an int n
FromInt(n) == MkFloat(n < 0, IF n < 0 THEN -n ELSE n, ZeroBits)

\* the binary fraction digits of r / k (r < k) that follow acc, up to n digits
\* in all, and the remainder left
RECURSIVE LongDivision(_, _, _, _)
LongDivision(r, k, n, acc) ==
    IF Len(acc) = n THEN [bits |-> acc, rem |-> r]
    ELSE LongDivision((2 * r) % k, k, n, Append(acc, IF 2 * r >= k THEN 1 ELSE 0))

\* n / k for ints n, k > 0: the correctly rounded quotient (two digits more
\* than are kept, and a sticky remainder)
TrueDiv(n, k) ==
    LET a == IF n < 0 THEN -n ELSE n
    IN Bind(LongDivision(a % k, k, FracBits + 2, <<>>),
            LAMBDA q : RoundMag(n < 0, a \div k, q.bits, q.rem # 0))

\* |x| < |y|
MagLess(x, y) ==
    \/ x.ip < y.ip
    \/ /\ x.ip = y.ip
       /\ \E i \in 1..FracBits :
             /\ x.fr[i] < y.fr[i]
             /\ \A j \in 1..(i - 1) : x.fr[j] = y.fr[j]

FLess(x, y) ==
    IF x.neg # y.neg THEN x.neg
    ELSE IF x.neg THEN MagLess(y, x) ELSE MagLess(x, y)

FGeq(x, y) == ~FLess(x, y)

FNeg(x) == MkFloat(~x.neg, x.ip, x.fr)

\* the digits of a*ka + b*kb not yet in acc (acc holds the last ones), from
\* the last to the first, and the carry out of the first (ka, kb may be
\* negative: the carry is then a borrow)
RECURSIVE Combine(_, _, _, _, _, _)
Combine(a, ka, b, kb, carry, acc) ==
    LET i == Len(a) - Len(acc)
    IN IF i = 0 THEN [carry |-> carry, fr |-> acc]
       ELSE LET d == a[i] * ka + b[i] * kb + carry
                bit == IF d < 0 THEN d + 2 ELSE d % 2
            IN Combine(a, ka, b, kb, (d - bit) \div 2, <<bit>> \o acc)

\* |x| + |y|, exact
AddMag(x, y) ==
    LET s == Combine(x.fr, 1, y.fr, 1, 0, <<>>)
    IN [ip |-> x.ip + y.ip + s.carry, fr |-> s.fr]

\* |x| - |y| for |x| >= |y|, exact
SubMag(x, y) ==
    LET s == Combine(x.fr, 1, y.fr, -1, 0, <<>>)
    IN [ip |-> x.ip - y.ip + s.carry, fr |-> s.fr]

\* x + y, correctly rounded
FAdd(x, y) ==
    IF x.neg = y.neg
    THEN Bind(AddMag(x, y), LAMBDA s : RoundMag(x.neg, s.ip, s.fr, FALSE))
    ELSE IF MagLess(x, y)
         THEN Bind(SubMag(y, x), LAMBDA s : RoundMag(y.neg, s.ip, s.fr, FALSE))
         ELSE Bind(SubMag(x, y), LAMBDA s : RoundMag(x.neg, s.ip, s.fr, FALSE))

FSub(x, y) == FAdd(x, FNeg(y))

\* x * k for an int k >= 0 (k is converted to float exactly), correctly rounded
FMulInt(x, k) ==
    Bind(Combine(x.fr, k, ZeroBits, 0, 0, <<>>),
         LAMBDA s : RoundMag(x.neg, x.ip * k + s.carry, s.fr, FALSE))

\* int(x): truncation toward zero
Trunc(x) == IF x.neg THEN -x.ip ELSE x.ip

\* x % w for a float x and an int w > 0 (float_rem): C fmod, which is exact and
\* has the sign of x, moved into [0, w) by a rounded addition of w
FMod(x, w) ==
    LET m == MkFloat(x.neg, x.ip % w, x.fr)
    IN IF m.neg THEN FAdd(m, FromInt(w)) ELSE m

\* x // w for a float x and an int w > 0 (float_floor_div): (x - fmod(x, w)) / w
\* is an exact integer, less one when fmod was moved
FFloorDiv(x, w) ==
    LET m == MkFloat(x.neg, x.ip % w, x.fr)
        q == x.ip \div w
    IN FromInt(IF x.neg THEN (IF m.neg THEN -q - 1 ELSE -q) ELSE q)

(***************************************************************************)
(* str, format                                                             *)
(***************************************************************************)
Digits == <<"0", "1", "2", "3", "4", "5", "6", "7", "8", "9">>

\* str(n) for n >= 0
RECURSIVE NatStr(_)
NatStr(n) == IF n < 10 THEN <<Digits[n + 1]>> ELSE Append(NatStr(n \div 10), Digits[(n % 10) + 1])

\* f"{n}"
IntStr(n) == IF n < 0 THEN <<"-">> \o NatStr(-n) ELSE NatStr(n)

\* f"{n:0wd}": zero-padded to width w, a minus sign counted in the width
ZeroPad(n, w) ==
    LET d == NatStr(IF n < 0 THEN -n ELSE n)
        sign == IF n < 0 THEN <<"-">> ELSE <<>>
        fill == w - Len(d) - Len(sign)
    IN sign \o [i \in 1..(IF fill > 0 THEN fill ELSE 0) |-> "0"] \o d

format_time(seconds) ==
    LET hours == Trunc(FFloorDiv(seconds, 3600))
        minutes == Trunc(FFloorDiv(FMod(seconds, 3600), 60))
        secs == Trunc(FMod(seconds, 60))
        millisecs == Bind(FSub(seconds, FromInt(Trunc(seconds))),
                          LAMBDA frac : Trunc(FMulInt(frac, 1000)))
    IN ZeroPad(hours, 2) \o <<":">> \o ZeroPad(minutes, 2) \o <<":">>
       \o ZeroPad(secs, 2) \o <<",">> \o ZeroPad(millisecs, 3)

(***************************************************************************)
(* str methods and int()                                                   *)
(***************************************************************************)
\* the whitespace str.strip() removes, as far as the model's alphabet has it
Whitespace == {" ", "\n", "\t"}

\* s.strip()
strip(s) ==
    LET keep == {i \in 1..Len(s) : s[i] \notin Whitespace}
    IN IF keep = {} THEN <<>>
       ELSE SubSeq(s, CHOOSE i \in keep : \A j \in keep : i <= j,
                      CHOOSE i \in keep : \A j \in keep : i >= j)

\* sep.join(parts)
RECURSIVE join(_, _)
join(sep, parts) ==
    IF parts = <<>> THEN <<>>
    ELSE IF Len(parts) = 1 THEN parts[1]
    ELSE parts[1] \o sep \o join(sep, Tail(parts))

RECURSIVE DigitsVal(_)
DigitsVal(ds) ==
    IF ds = <<>> THEN 0
    ELSE 10 * DigitsVal(SubSeq(ds, 1, Len(ds) - 1))
         + (CHOOSE n \in 0..9 : Digits[n + 1] = ds[Len(ds)])

\* int(x): an int is returned as it is; a str is stripped, may carry one sign,
\* and must then be decimal digits only, else ValueError (the underscore
\* digit separator is outside the model's alphabet)
int(x) ==
    IF x.kind = "int" THEN [raised |-> "none", v |-> x.v]
    ELSE LET u == strip(x.v)
             signed == u # <<>> /\ u[1] \in {"+", "-"}
             body == IF signed THEN Tail(u) ELSE u
             ok == body # <<>> /\ \A i \in 1..Len(body) : \E n \in 1..10 : Digits[n] = body[i]
         IN IF ok
            THEN [raised |-> "none",
                  v |-> IF signed /\ u[1] = "-" THEN -DigitsVal(body) ELSE DigitsVal(body)]
            ELSE [raised |-> "ValueError", v |-> 0]

\* the truth value of None or a str
Truthy(x) == x.kind = "str" /\ x.v # <<>>

(***************************************************************************)
(* xml.etree.ElementTree                                                   *)
(***************************************************************************)
\* an Element: tag, attrib (a mapping of the attributes present), text (None
\* or the text before the first child) and the child elements in order
Element(tag, attrib, text, kids) ==
    [tag |-> tag, attrib |-> attrib, text |-> text, kids |-> kids]

\* elem.get(key, default)
get(elem, key, default) ==
    IF key \in DOMAIN elem.attrib THEN elem.attrib[key] ELSE default

\* every descendant of elem in document order
RECURSIVE Descendants(_)
RECURSIVE DescendantsOfAll(_)
Descendants(elem) == DescendantsOfAll(elem.kids)
DescendantsOfAll(kids) ==
    IF kids = <<>> THEN <<>>
    ELSE <<Head(kids)>> \o Descendants(Head(kids)) \o DescendantsOfAll(Tail(kids))

\* elem.findall('.//' + tag): the descendants with that tag, elem excluded
findall_deep(elem, tag) == SelectSeq(Descendants(elem), LAMBDA e : e.tag = tag)

\* the search of line 26 made at any depth, as './/s' would make it
findall_any_depth(elem, tag) == SelectSeq(Descendants(elem), LAMBDA e : e.tag = tag)

\* elem.findall(tag): the direct children with that tag
findall(elem, tag) == SelectSeq(elem.kids, LAMBDA e : e.tag = tag)

\* ET.fromstring(xml_content): the root element, or ParseError when the text is
\* not well-formed XML
fromstring(xml_content) ==
    IF xml_content.wellformed
    THEN [raised |-> "none", root |-> xml_content.root]
    ELSE [raised |-> "ParseError", root |-> None]

(***************************************************************************)
(* parse_youtube_xml_captions                                              *)
(***************************************************************************)
\* lines 25-32: the stripped texts of the direct 's' children, joined with one
\* space, stripped
full_text(elem) ==
    LET segs == findall(elem, "s")
        text_parts == [i \in 1..Len(segs) |->
                          strip(IF segs[i].text.kind = "none" THEN <<>> ELSE segs[i].text.v)]
    IN strip(join(<<" ">>, text_parts))

\* line 35 with the test left out: every cue is kept, blank or not
keep_every_cue(text) == TRUE

\* line 35: `if full_text:`
is_kept(text) == text # <<>>

\* lines 21-22 and 35-40 for one cue: raised, and the record appended (if any)
cue_record(elem) ==
    LET t == int(get(elem, "t", IntV(0)))
        has_d == Truthy(get(elem, "d", None))
        d == IF has_d THEN int(get(elem, "d", IntV(0))) ELSE [raised |-> "none", v |-> 0]
    IN IF t.raised # "none" THEN [raised |-> "ValueError@21", keep |-> FALSE]
       ELSE IF d.raised # "none" THEN [raised |-> "ValueError@22", keep |-> FALSE]
       ELSE Bind(TrueDiv(t.v, 1000), LAMBDA start_time :
            Bind(IF has_d THEN TrueDiv(d.v, 1000) ELSE FromInt(0), LAMBDA duration :
            Bind(full_text(elem), LAMBDA text :
                [raised |-> "none", keep |-> is_kept(text),
                 rec |-> [start_time |-> start_time,
                          end_time |-> FAdd(start_time, duration),
                          text |-> text]])))

\* the loop of lines 19-40 from cue i on, captions collected so far
RECURSIVE parse_loop(_, _, _)
parse_loop(cues, i, captions) ==
    IF i > Len(cues) THEN [raised |-> "none", captions |-> captions]
    ELSE Bind(cue_record(cues[i]), LAMBDA r :
            IF r.raised # "none" THEN [raised |-> r.raised, captions |-> <<>>]
            ELSE parse_loop(cues, i + 1,
                            IF r.keep THEN Append(captions, r.rec) ELSE captions))

parse_youtube_xml_captions(xml_content) ==
    LET doc == fromstring(xml_content)
    IN IF doc.raised # "none" THEN [raised |-> "ParseError@13", captions |-> <<>>]
       ELSE Bind(findall_deep(doc.root, "p"), LAMBDA cues : parse_loop(cues, 1, <<>>))

(***************************************************************************)
(* convert_to_srt                                                          *)
(***************************************************************************)
\* lines 62-66: the entry of caption number i
srt_entry(i, caption) ==
    IntStr(i) \o <<"\n">>
    \o format_time(caption.start_time) \o <<" ", "-", "-", ">", " ">>
    \o format_time(caption.end_time) \o <<"\n">>
    \o caption.text \o <<"\n", "\n">>

\* lines 51-67 over the captions sorted by start time (stable)
srt_entries_by_start(captions) ==
    LET before(a, b) ==
            \/ FLess(captions[a].start_time, captions[b].start_time)
            \/ captions[a].start_time = captions[b].start_time /\ a < b
        at(i) == CHOOSE j \in 1..Len(captions) :
                    Cardinality({k \in 1..Len(captions) : before(k, j)}) = i - 1
    IN [i \in 1..Len(captions) |-> srt_entry(i, captions[at(i)])]

\* lines 51-67: the list srt_entries, enumerate(captions, 1)
srt_entries(captions) == [i \in 1..Len(captions) |-> srt_entry(i, captions[i])]

convert_to_srt(captions) == join(<<>>, srt_entries(captions))

(***************************************************************************)
(* save_custom_captions, download_captions, save_captions                  *)
(***************************************************************************)
\* the default of the output_file parameter (lines 71, 100, 142)
DefaultOutput == "captions.srt"

\* the value of a keyword parameter: the argument, or the default when the
\* caller gave none (None stands for "not given")
Param(arg, default) == IF arg.kind = "none" THEN default ELSE arg.v

NoLocals ==
    [language_code |-> None, caption |-> 0, output_file |-> None,
     captions |-> <<>>, srt_content |-> None]

\* lines 78-90 with the file opened before the XML is parsed: a document that
\* fails to parse leaves the file created and empty
save_opening_first(xml_content, output_file, files, fault) ==
    LET opened == [files EXCEPT ![output_file] = Str(<<>>)]
    IN IF fault = "open"
       THEN [fs |-> files, raised |-> "OSError@86", trace |-> <<"open">>,
             locals |-> NoLocals, stdout |-> <<<<"Error processing captions:", "OSError@86">>>>]
       ELSE Bind(parse_youtube_xml_captions(xml_content), LAMBDA p :
            IF p.raised # "none"
            THEN [fs |-> opened, raised |-> p.raised, trace |-> <<"open", "parse">>,
                  locals |-> NoLocals,
                  stdout |-> <<<<"Error processing captions:", p.raised>>>>]
            ELSE Bind(convert_to_srt(p.captions), LAMBDA srt_content :
                 [fs |-> IF fault = "write" THEN opened
                         ELSE [files EXCEPT ![output_file] = Str(srt_content)],
                  raised |-> IF fault = "write" THEN "OSError@87" ELSE "none",
                  trace |-> <<"open", "parse", "convert", "write">>,
                  locals |-> [NoLocals EXCEPT !.captions = p.captions,
                                              !.srt_content = Str(srt_content)],
                  stdout |-> <<>>]))

\* save_custom_captions(xml_content, output_file) on the files `files`, the
\* fault (if any) being the one the environment injects in this run.  Every
\* exception of lines 79-90 is caught at line 92 and printed; the function
\* returns None.  open(..., 'w') creates or truncates the file; a write that
\* fails leaves it empty.
save_custom_captions(xml_content, output_file, files, fault) ==
    LET loc == [NoLocals EXCEPT !.output_file = Str(output_file)]
        failed(exc, steps, l, f) ==
            [fs |-> f, raised |-> exc, trace |-> steps, locals |-> l,
             stdout |-> <<<<"Error processing captions:", exc>>>>]
    IN Bind(parse_youtube_xml_captions(xml_content), LAMBDA p :
       IF p.raised # "none" THEN failed(p.raised, <<"parse">>, loc, files)
       ELSE Bind(convert_to_srt(p.captions), LAMBDA srt_content :
            LET parsed == [loc EXCEPT !.captions = p.captions,
                                      !.srt_content = Str(srt_content)]
            IN IF fault = "open"
               THEN failed("OSError@86", <<"parse", "convert", "open">>, parsed, files)
               ELSE IF fault = "write"
               THEN failed("OSError@87", <<"parse", "convert", "open", "write">>, parsed,
                           [files EXCEPT ![output_file] = Str(<<>>)])
               ELSE [fs |-> [files EXCEPT ![output_file] = Str(srt_content)],
                     raised |-> "none",
                     trace |-> <<"parse", "convert", "open", "write">>,
                     locals |-> parsed,
                     stdout |-> <<<<"Captions saved to", output_file>>,
                                  <<"Total captions parsed:", Len(p.captions)>>>>]))

\* lines 114-121: language_code after the loop over yt.captions
default_language(tracks, language_code) ==
    IF tracks # <<>> /\ language_code = None THEN Str(tracks[1].code) ELSE language_code

\* line 124 falling back on the first track when no code matches
find_caption_or_first(tracks, language_code) ==
    LET hits == {i \in 1..Len(tracks) : Str(tracks[i].code) = language_code}
    IN IF hits # {} THEN CHOOSE i \in hits : \A j \in hits : i <= j
       ELSE IF tracks # <<>> THEN 1 ELSE 0

\* line 124: next((cap for cap in yt.captions if cap.code == language_code), None),
\* as the index of the track in the listing, 0 for None
find_caption(tracks, language_code) ==
    LET hits == {i \in 1..Len(tracks) : Str(tracks[i].code) = language_code}
    IN IF hits = {} THEN 0 ELSE CHOOSE i \in hits : \A j \in hits : i <= j

\* download_captions(youtube_url, language_code, output_file): env is what the
\* video platform answers for youtube_url.  Every exception of lines 110-136
\* is caught at line 137; the function returns None.  output_file is not
\* passed on at line 136.
download_captions(env, language_code, output_file, files, fault) ==
    LET listed == <<<<"Available captions:">>>>
                  \o [i \in 1..Len(env.tracks) |-> <<"Code:", env.tracks[i].code>>]
        lang == default_language(env.tracks, language_code)
        caption == find_caption(env.tracks, lang)
        loc == [NoLocals EXCEPT !.language_code = lang, !.caption = caption]
        xml_captions == env.tracks[caption].xml
    IN IF fault = "listing"
       THEN [fs |-> files, raised |-> "NetworkError@115", trace |-> <<"list">>,
             locals |-> NoLocals, stdout |-> <<<<"Some error occured">>>>]
       ELSE IF caption = 0
       THEN [fs |-> files, raised |-> "ValueError@127", trace |-> <<"list", "select">>,
             locals |-> loc, stdout |-> listed \o <<<<"Some error occured">>>>]
       ELSE IF fault = "fetch"
       THEN [fs |-> files, raised |-> "NetworkError@131",
             trace |-> <<"list", "select", "fetch">>,
             locals |-> loc, stdout |-> listed \o <<<<"Some error occured">>>>]
       ELSE Bind(save_custom_captions(xml_captions, DefaultOutput, files, fault),
                 LAMBDA saved :
                    [fs |-> saved.fs, raised |-> saved.raised,
                     trace |-> <<"list", "select", "fetch">> \o saved.trace,
                     locals |-> [saved.locals EXCEPT !.language_code = lang,
                                                     !.caption = caption],
                     stdout |-> listed \o <<<<"Raw XML Captions:">>>> \o saved.stdout])

\* save_captions(youtube_url, output_file, language_code): output_file is not
\* passed on at line 151
save_captions(env, output_file, language_code, files, fault) ==
    Bind(download_captions(env, language_code, DefaultOutput, files, fault),
         LAMBDA d : [d EXCEPT !.stdout = <<<<"Starting caption download...">>>> \o @])

(***************************************************************************)
(* The inputs: documents, caption listings, files, faults                  *)
(***************************************************************************)
MaxCues == 3
MaxSegs == 2
MaxDepth == 2
MaxTracks == 2

\* all sequences over S of length 0..n
SeqsUpTo(S, n) == UNION {[1..k -> S] : k \in 0..n}

TestLine == <<"T", "e", "s", "t", " ", "l", "i", "n", "e">>
Hello == <<"H", "e", "l", "l", "o">>
WorldPadded == <<" ", " ", "w", "o", "r", "l", "d", " ", " ">>

\* the attributes t and d of a cue: None when absent
Attrs(t, d) ==
    LET val == [k \in {"t", "d"} |-> IF k = "t" THEN t ELSE d]
    IN [k \in {k \in {"t", "d"} : val[k] # None} |-> val[k]]

Seg(text) == Element("s", <<>>, text, <<>>)
Cue(t, d, kids) == Element("p", Attrs(t, d), None, kids)
Doc(kids) == [wellformed |-> TRUE, root |-> Element("timedtext", <<>>, None, kids)]
NotXml == [wellformed |-> FALSE, root |-> None]

\* attribute values: absent, empty, not a number, and integers as the
\* platform writes them (one with surrounding blanks, one negative)
StartValues ==
    {None, Str(<<>>), Str(<<"a", "b", "c">>), Str(<<"0">>), Str(<<"1", "5", "0", "0">>),
     Str(<<"1", "0", "0", "1">>), Str(<<"-", "5">>), Str(<<" ", "7", " ">>)}
DurationValues ==
    {None, Str(<<>>), Str(<<"a", "b", "c">>), Str(<<"0">>), Str(<<"2", "5", "0", "0">>),
     Str(<<"1">>), Str(<<"-", "5">>), Str(<<"1", ".", "5">>)}

\* one cue, every pair of attribute values
TimingDocs ==
    {Doc(<<Cue(t, d, <<Seg(Str(TestLine))>>)>>) : t \in StartValues, d \in DurationValues}

\* the children a cue may have: segments with no text run, an empty or blank
\* one, plain and padded ones, one with an inner line break; a segment holding
\* a nested segment; an element that is no segment; a segment one level down
CueChildren ==
    {Seg(None), Seg(Str(<<" ", "\t">>)), Seg(Str(Hello)), Seg(Str(WorldPadded)),
     Seg(Str(<<"a", "\n", "b", "\n">>)),
     Element("s", <<>>, None, <<Seg(Str(<<"i", "n">>))>>),
     Element("b", <<>>, Str(<<"b", "o", "l", "d">>), <<Seg(Str(<<"l", "o", "w">>))>>)}

\* one cue with up to MaxSegs children, and one with text of its own before
\* its only child
TextDocs ==
    {Doc(<<Cue(Str(<<"1", "5", "0", "0">>), Str(<<"2", "5", "0", "0">>), kids)>>) :
        kids \in SeqsUpTo(CueChildren, MaxSegs)}
    \cup {Doc(<<[Cue(Str(<<"1", "5", "0", "0">>), None, kids)
                   EXCEPT !.text = Str(<<"o", "w", "n">>)]>>) :
             kids \in SeqsUpTo(CueChildren, 1)}

\* cues a document is made of: a late one, an earlier one with no duration, two
\* that are dropped (blank segments only, no segment), one ending before it starts
CueSamples ==
    {Cue(Str(<<"1", "5", "0", "0">>), Str(<<"2", "5", "0", "0">>), <<Seg(Str(TestLine))>>),
     Cue(Str(<<"7">>), None, <<Seg(Str(Hello)), Seg(Str(WorldPadded))>>),
     Cue(Str(<<"9", "0", "0">>), Str(<<"1", "0", "0">>), <<Seg(Str(<<>>)), Seg(Str(<<" ", " ">>))>>),
     Cue(Str(<<"5", "0", "0">>), Str(<<"1", "0", "0">>), <<>>)}

\* up to MaxCues cues under the root
CueDocs == {Doc(cues) : cues \in SeqsUpTo(CueSamples, MaxCues)}

\* kids wrapped in n nested elements
RECURSIVE Wrapped(_, _)
Wrapped(kids, n) ==
    IF n = 0 THEN kids ELSE <<Element("body", <<>>, None, Wrapped(kids, n - 1))>>

\* a cue below 0..MaxDepth wrappers, beside a cue of the root; a cue inside a
\* cue, and a cue inside a segment; a root that is itself a cue
NestedDocs ==
    LET late == Cue(Str(<<"1", "5", "0", "0">>), Str(<<"2", "5", "0", "0">>), <<Seg(Str(TestLine))>>)
        early == Cue(Str(<<"7">>), None, <<Seg(Str(Hello))>>)
    IN {Doc(Wrapped(<<late>>, n) \o tail) : n \in 0..MaxDepth, tail \in {<<>>, <<early>>}}
       \cup {Doc(<<[late EXCEPT !.kids = <<early>> \o @]>>),
             Doc(<<[late EXCEPT !.kids = <<Element("s", <<>>, Str(Hello), <<early>>)>>]>>),
             [wellformed |-> TRUE, root |-> [late EXCEPT !.kids = @ \o <<early>>]]}

Docs == {NotXml} \cup TimingDocs \cup TextDocs \cup CueDocs \cup NestedDocs

\* the caption tracks' codes, and the codes a caller may ask for
Codes == {"en", "de"}
LanguageCodes == {None, Str("en"), Str("de"), Str("fr")}

\* what a track's xml_captions may be: two cues out of time order, one cue,
\* text that is no XML, a cue with a malformed start
TrackDocs ==
    {Doc(<<Cue(Str(<<"1", "5", "0", "0">>), Str(<<"2", "5", "0", "0">>), <<Seg(Str(TestLine))>>),
           Cue(Str(<<"7">>), None, <<Seg(Str(Hello))>>)>>),
     Doc(<<Cue(Str(<<"9", "0", "0">>), Str(<<"1", "0", "0">>), <<Seg(Str(WorldPadded))>>)>>),
     NotXml,
     Doc(<<Cue(Str(<<"a", "b", "c">>), None, <<Seg(Str(Hello))>>)>>)}

\* yt.captions: up to MaxTracks tracks, no code twice (the listing is keyed by
\* code), each with its XML
Listings ==
    {tr \in SeqsUpTo([code : Codes, xml : TrackDocs], MaxTracks) :
        \A i, j \in 1..Len(tr) : tr[i].code = tr[j].code => i = j}

Paths == {DefaultOutput, "out.srt"}
OutputArgs == {None, Str("out.srt")}

OldContent == <<"o", "l", "d">>
\* before the call: no file yet, or both left by an earlier run
InitialFiles == {[path \in Paths |-> None], [path \in Paths |-> Str(OldContent)]}

\* the one fault the environment holds for a run: none, the listing or the
\* track cannot be fetched, the file cannot be opened or written (a second
\* fault would come after the first has ended the call)
NetFaults == {"none", "listing", "fetch"}
FileFaults == {"none", "open", "write"}

(***************************************************************************)
(* The program: one call of an entry point                                 *)
(***************************************************************************)
Init ==
    /\ pc = "idle"
    /\ call = [fn |-> "none"]
    /\ fs \in InitialFiles
    /\ outcome = "none"
    /\ raised = "none"
    /\ ret = None
    /\ stdout = <<>>
    /\ trace = <<>>
    /\ locals = NoLocals

\* parse_youtube_xml_captions(xml_content), called on its own: its exceptions
\* reach the caller
Parse(xml_content) ==
    /\ pc = "idle"
    /\ \E p \in {parse_youtube_xml_captions(xml_content)} :
       /\ pc' = "done"
       /\ call' = [fn |-> "parse_youtube_xml_captions", xml_content |-> xml_content]
       /\ outcome' = IF p.raised = "none" THEN "returned" ELSE "raised"
       /\ raised' = p.raised
       /\ ret' = p.captions
       /\ trace' = <<"parse">>
       /\ locals' = [NoLocals EXCEPT !.captions = p.captions]
       /\ UNCHANGED <<fs, stdout>>

\* the state after a call whose effect is effect: nothing escapes the entry
\* points
Returned(effect) ==
    \E e \in {effect} :
    /\ pc' = "done"
    /\ outcome' = "returned"
    /\ ret' = None
    /\ fs' = e.fs
    /\ raised' = e.raised
    /\ stdout' = e.stdout
    /\ trace' = e.trace
    /\ locals' = e.locals

SaveCustomCaptions(xml_content, output_file, fault) ==
    /\ pc = "idle"
    /\ call' = [fn |-> "save_custom_captions", xml_content |-> xml_content,
                output_file |-> output_file, fault |-> fault]
    /\ Returned(save_custom_captions(xml_content, Param(output_file, DefaultOutput), fs, fault))

DownloadCaptions(env, language_code, output_file, fault) ==
    /\ pc = "idle"
    /\ call' = [fn |-> "download_captions", env |-> env, fault |-> fault,
                language_code |-> language_code, output_file |-> output_file]
    /\ Returned(download_captions(env, language_code,
                                  Param(output_file, DefaultOutput), fs, fault))

SaveCaptions(env, output_file, language_code, fault) ==
    /\ pc = "idle"
    /\ call' = [fn |-> "save_captions", env |-> env, fault |-> fault,
                language_code |-> language_code, output_file |-> output_file]
    /\ Returned(save_captions(env, Param(output_file, DefaultOutput),
                              language_code, fs, fault))

Next ==
    \/ \E xml_content \in Docs : Parse(xml_content)
    \/ \E xml_content \in Docs, output_file \in OutputArgs, fault \in FileFaults :
          SaveCustomCaptions(xml_content, output_file, fault)
    \/ \E tracks \in Listings, language_code \in LanguageCodes,
          output_file \in OutputArgs, fault \in NetFaults \cup FileFaults :
          DownloadCaptions([tracks |-> tracks], language_code, output_file, fault)
    \/ \E tracks \in Listings, language_code \in LanguageCodes,
          output_file \in OutputArgs, fault \in NetFaults \cup FileFaults :
          SaveCaptions([tracks |-> tracks], output_file, language_code, fault)

Spec == Init /\ [][Next]_vars

(***************************************************************************)
(* format_time on its own                                                  *)
(***************************************************************************)
MaxMs == 1100

\* times in milliseconds: every one up to MaxMs, and around the minute, the
\* hour and the hundredth hour
TimeInputs ==
    (0..MaxMs)
    \cup {h * 3600000 + s * 1000 + k : h \in {0, 1, 99, 100, 595}, s \in {59, 60, 3599}, k \in {0, 1, 999}}

InitTime ==
    /\ pc = "idle"
    /\ call = [fn |-> "none"]
    /\ fs = [path \in Paths |-> None]
    /\ outcome = "none"
    /\ raised = "none"
    /\ ret = None
    /\ stdout = <<>>
    /\ trace = <<>>
    /\ locals = NoLocals

FormatTime(ms) ==
    /\ pc = "idle"
    /\ pc' = "done"
    /\ call' = [fn |-> "format_time", ms |-> ms]
    /\ outcome' = "returned"
    /\ ret' = Str(format_time(TrueDiv(ms, 1000)))
    /\ raised' = "none"
    /\ UNCHANGED <<fs, stdout, trace, locals>>

NextTime == \E ms \in TimeInputs : FormatTime(ms)

SpecTime == InitTime /\ [][NextTime]_vars

(***************************************************************************)
(* The specification's terms, stated without the code's helpers            *)
(***************************************************************************)
Range(s) == {s[i] : i \in 1..Len(s)}

DownloadEntries == {"download_captions", "save_captions"}

\* the document the call parses: the argument, or the XML of the track chosen
InputDoc ==
    IF call.fn \in DownloadEntries THEN call.env.tracks[locals.caption].xml
    ELSE call.xml_content

\* the cue elements of a document, in document order (the root is the
\* document, not a cue)
CuesOf(doc) ==
    IF doc.wellformed THEN SelectSeq(Descendants(doc.root), LAMBDA e : e.tag = "p")
    ELSE <<>>

\* the text runs of the segments that are direct children of a cue
SegmentRuns(cue) ==
    LET segs == SelectSeq(cue.kids, LAMBDA e : e.tag = "s")
    IN [i \in 1..Len(segs) |-> IF segs[i].text.kind = "none" THEN <<>> ELSE segs[i].text.v]

RECURSIVE TrimLeft(_)
TrimLeft(s) == IF s # <<>> /\ s[1] \in Whitespace THEN TrimLeft(Tail(s)) ELSE s

RECURSIVE TrimRight(_)
TrimRight(s) ==
    IF s # <<>> /\ s[Len(s)] \in Whitespace THEN TrimRight(SubSeq(s, 1, Len(s) - 1)) ELSE s

Trim(s) == TrimRight(TrimLeft(s))

RECURSIVE SpaceJoined(_)
SpaceJoined(runs) ==
    IF runs = <<>> THEN <<>>
    ELSE IF Len(runs) = 1 THEN runs[1]
    ELSE runs[1] \o <<" ">> \o SpaceJoined(Tail(runs))

\* the text of a cue: its runs trimmed, joined with one space, trimmed
CueText(cue) ==
    LET runs == SegmentRuns(cue)
    IN Trim(SpaceJoined([i \in 1..Len(runs) |-> Trim(runs[i])]))

\* a cue with no segment, or with nothing but blank segments
BlankCue(cue) ==
    \A i \in 1..Len(cue.kids) :
        cue.kids[i].tag = "s" =>
            \/ cue.kids[i].text.kind = "none"
            \/ Range(cue.kids[i].text.v) \subseteq Whitespace

KeptCues(doc) == SelectSeq(CuesOf(doc), LAMBDA c : ~BlankCue(c))

\* the decimal numeral of a natural number
RECURSIVE Decimal(_)
Decimal(n) ==
    IF n < 10 THEN <<Digits[n + 1]>> ELSE Decimal(n \div 10) \o <<Digits[(n % 10) + 1]>>

\* Decimal(n) with zeros in front up to w characters
RECURSIVE Padded(_, _)
Padded(n, w) ==
    IF Len(Decimal(n)) >= w THEN Decimal(n) ELSE <<"0">> \o Padded(n, w - 1)

\* the index lines of an SRT text: its first line and every line that follows
\* a blank line
IndexLines(s) ==
    LET starts == {i \in 1..Len(s) : i = 1 \/ (i > 2 /\ s[i - 1] = "\n" /\ s[i - 2] = "\n")}
        end(i) == CHOOSE j \in i..(Len(s) + 1) :
                     /\ j = Len(s) + 1 \/ s[j] = "\n"
                     /\ \A m \in i..(j - 1) : s[m] # "\n"
        nth(k) == CHOOSE i \in starts : Cardinality({j \in starts : j < i}) = k - 1
    IN [k \in 1..Cardinality(starts) |-> SubSeq(s, nth(k), end(nth(k)) - 1)]

\* is the text an integer: blanks around, one sign at most, digits
IsIntegerText(s) ==
    LET u == Trim(s)
        body == IF u # <<>> /\ u[1] \in {"+", "-"} THEN Tail(u) ELSE u
    IN body # <<>> /\ Range(body) \subseteq Range(Digits)

PresentNonInteger(cue, key) ==
    key \in DOMAIN cue.attrib /\ ~IsIntegerText(cue.attrib[key].v)

\* the integer an attribute of a cue holds, 0 when the cue has no such attribute
OffsetMs(cue, key) ==
    IF key \notin DOMAIN cue.attrib THEN 0
    ELSE LET u == Trim(cue.attrib[key].v)
             body == IF u[1] \in {"+", "-"} THEN Tail(u) ELSE u
         IN IF u[1] = "-" THEN -DigitsVal(body) ELSE DigitsVal(body)

\* the record carries the times of the cue: the start offset over 1000, and
\* the end that far after the start as the duration over 1000
CarriesTimes(caption, cue) ==
    /\ ~PresentNonInteger(cue, "t") =>
          caption.start_time = TrueDiv(OffsetMs(cue, "t"), 1000)
    /\ ~PresentNonInteger(cue, "d") =>
          caption.end_time = FAdd(caption.start_time, TrueDiv(OffsetMs(cue, "d"), 1000))

\* the block of the k-th record: index, timecode line, text, blank line
Block(k, caption) ==
    Decimal(k) \o <<"\n">>
    \o format_time(caption.start_time) \o <<" ", "-", "-", ">", " ">>
    \o format_time(caption.end_time) \o <<"\n">>
    \o caption.text \o <<"\n", "\n">>

RECURSIVE Blocks(_, _)
Blocks(captions, k) ==
    IF k > Len(captions) THEN <<>> ELSE Block(k, captions[k]) \o Blocks(captions, k + 1)

\* HH:MM:SS,mmm of a whole number of milliseconds, each field floored
Timecode(ms) ==
    Padded(ms \div 3600000, 2) \o <<":">> \o Padded((ms \div 60000) % 60, 2) \o <<":">>
    \o Padded((ms \div 1000) % 60, 2) \o <<",">> \o Padded(ms % 1000, 3)

HelloWorld == <<"H", "e", "l", "l", "o", " ", "w", "o", "r", "l", "d">>

\* a is before every b in the sequence of steps
Precedes(a, b, steps) ==
    \A j \in 1..Len(steps) : steps[j] = b => \E i \in 1..(j - 1) : steps[i] = a

(***************************************************************************)
(* C1                                                                      *)
(***************************************************************************)
\* C1: a cue whose segments are missing or all blank gives no record and no
\* SRT block: parse returns one record, with non-empty text, per cue that is
\* not blank, and the index lines of the rendered SRT are 1, 2, ..., N for the
\* N records, in that order.
C1_BlankCuesDroppedIndicesSequential ==
    /\ (call.fn = "parse_youtube_xml_captions" /\ raised = "none") =>
          /\ Len(ret) = Len(KeptCues(call.xml_content))
          /\ \A k \in 1..Len(ret) : ret[k].text # <<>>
    /\ locals.srt_content # None =>
          /\ Len(locals.captions) = Len(KeptCues(InputDoc))
          /\ IndexLines(locals.srt_content.v)
                = [k \in 1..Len(locals.captions) |-> Decimal(k)]

\* three cues, the second one blank: two records, two blocks, written
C1_Witness ==
    /\ call.fn = "save_custom_captions"
    /\ raised = "none"
    /\ Len(CuesOf(call.xml_content)) = 3
    /\ BlankCue(CuesOf(call.xml_content)[2])
    /\ ~BlankCue(CuesOf(call.xml_content)[1])
    /\ ~BlankCue(CuesOf(call.xml_content)[3])
    /\ Len(locals.captions) = 2
    /\ IndexLines(locals.srt_content.v) = <<<<"1">>, <<"2">>>>

(***************************************************************************)
(* C2                                                                      *)
(***************************************************************************)
\* C2: whenever a cue has a t or a d attribute whose value is not an integer
\* (the empty string included), parse fails; 0 stands in for an attribute only
\* when the attribute is absent.
C2_NonIntegerAttributeIsAnError ==
    (/\ call.fn = "parse_youtube_xml_captions"
     /\ \E i \in 1..Len(CuesOf(call.xml_content)) :
           \/ PresentNonInteger(CuesOf(call.xml_content)[i], "t")
           \/ PresentNonInteger(CuesOf(call.xml_content)[i], "d"))
    => outcome = "raised"

(***************************************************************************)
(* C3                                                                      *)
(***************************************************************************)
\* C3: every failure inside a call (malformed XML or attribute, no matching
\* track, a network or file fault) reaches the caller of the entry point as an
\* error; no call in which something was raised returns normally.
C3_FailuresReachTheCaller == raised # "none" => outcome = "raised"

(***************************************************************************)
(* C4                                                                      *)
(***************************************************************************)
\* one step of C4, from the state before the call to the state after it
C4_Step ==
    LET entry == call'.fn
        steps == trace'
        nofetch == entry \in DownloadEntries /\ call'.fault \in {"listing", "fetch"}
        notrack == /\ entry \in DownloadEntries
                   /\ \A i \in 1..Len(call'.env.tracks) :
                         /\ call'.language_code # None
                         /\ call'.language_code # Str(call'.env.tracks[i].code)
        noparse == raised' \in {"ParseError@13", "ValueError@21", "ValueError@22"}
    IN /\ (nofetch \/ notrack \/ noparse) => fs' = fs
       /\ fs' # fs => "open" \in Range(steps)
       /\ Precedes("parse", "convert", steps)
       /\ Precedes("convert", "open", steps)
       /\ Precedes("open", "write", steps)
       /\ entry \in DownloadEntries =>
             /\ Precedes("list", "select", steps)
             /\ Precedes("select", "fetch", steps)
             /\ Precedes("fetch", "parse", steps)
       /\ "convert" \in Range(steps) =>
             /\ ~noparse
             /\ InputDoc'.wellformed
             /\ Len(locals'.captions) = Len(KeptCues(InputDoc'))

\* C4: the output file is opened and written only after the track has been
\* listed, selected and fetched and the whole XML parsed and rendered; when
\* fetching, track selection or parsing fails the files are what they were
\* before the call, and rendering starts only on a document parsed to its end.
C4_FileOnlyAfterParseAndRender == [][C4_Step]_vars

\* a track that is no XML: the call ends at the parse, an existing file keeps
\* its content
C4_Witness ==
    /\ call.fn = "download_captions"
    /\ raised = "ParseError@13"
    /\ trace = <<"list", "select", "fetch", "parse">>
    /\ fs[DefaultOutput] = Str(OldContent)

(***************************************************************************)
(* C5                                                                      *)
(***************************************************************************)
\* C5: with no language code and a non-empty listing the first track is the
\* one converted; with a code, a track with that code; when no track has the
\* code wanted (or the listing is empty) nothing is fetched or converted and
\* the ValueError of line 127 is raised; the records parsed are those of the
\* chosen track.
C5_TrackSelection ==
    (call.fn \in DownloadEntries /\ call.fault # "listing") =>
       LET tracks == call.env.tracks
           asked == call.language_code
           matching == {i \in 1..Len(tracks) : asked = None \/ asked = Str(tracks[i].code)}
       IN /\ (asked = None /\ tracks # <<>>) => locals.caption = 1
          /\ (asked # None /\ matching # {}) => locals.caption \in matching
          /\ matching = {} =>
                /\ locals.caption = 0
                /\ raised = "ValueError@127"
                /\ Range(trace) \cap {"fetch", "parse", "convert", "open", "write"} = {}
                /\ locals.srt_content = None
          /\ (locals.caption # 0 /\ locals.srt_content # None) =>
                LET kept == KeptCues(tracks[locals.caption].xml)
                IN [k \in 1..Len(locals.captions) |-> locals.captions[k].text]
                      = [k \in 1..Len(kept) |-> CueText(kept[k])]

\* a code no listed track has, with two tracks listed
C5_Witness ==
    /\ call.fn = "download_captions"
    /\ call.language_code = Str("fr")
    /\ Len(call.env.tracks) = 2
    /\ call.fault = "none"
    /\ locals.caption = 0
    /\ raised = "ValueError@127"

(***************************************************************************)
(* C6                                                                      *)
(***************************************************************************)
\* C6: for a time of m milliseconds, m >= 0, format_time gives HH:MM:SS,mmm
\* with every field floored (the last one m mod 1000) and zero-padded, 12
\* characters when the hours are below 100 and more when they are not.
C6_FormatTimeFloorsEachField ==
    call.fn = "format_time" =>
       /\ ret.v = Timecode(call.ms)
       /\ call.ms < 100 * 3600000 => Len(ret.v) = 12
       /\ call.ms >= 100 * 3600000 => Len(ret.v) > 12

(***************************************************************************)
(* C7                                                                      *)
(***************************************************************************)
\* C7: every record parse returns has start_time = t/1000 (0 without t) and
\* end_time = start_time + d/1000 (d taken as 0 without d), with
\* start_time >= 0 and end_time >= start_time, negative t or d included.
C7_TimesFromOffsetsAndOrdered ==
    (call.fn = "parse_youtube_xml_captions" /\ raised = "none") =>
       LET kept == KeptCues(call.xml_content)
       IN /\ Len(ret) = Len(kept)
          /\ \A k \in 1..Len(ret) :
                /\ CarriesTimes(ret[k], kept[k])
                /\ FGeq(ret[k].start_time, FromInt(0))
                /\ FGeq(ret[k].end_time, ret[k].start_time)

(***************************************************************************)
(* C8                                                                      *)
(***************************************************************************)
\* C8: the cues are found at any depth; the text of a record is made of the
\* text runs of the cue's direct-child segments only (no run counts as empty;
\* the cue's own text and deeper text add nothing), each trimmed, joined with
\* one space, the whole trimmed; "Hello" and "  world  " give "Hello world";
\* no stored text starts or ends with whitespace.
C8_TextFromDirectSegments ==
    (call.fn = "parse_youtube_xml_captions" /\ raised = "none") =>
       LET cues == CuesOf(call.xml_content)
           kept == SelectSeq(cues, LAMBDA c : CueText(c) # <<>>)
       IN /\ [k \in 1..Len(ret) |-> ret[k].text] = [k \in 1..Len(kept) |-> CueText(kept[k])]
          /\ \A k \in 1..Len(ret) :
                /\ ret[k].text # <<>>
                /\ ret[k].text[1] \notin Whitespace
                /\ ret[k].text[Len(ret[k].text)] \notin Whitespace
          /\ \A i \in 1..Len(cues) :
                SegmentRuns(cues[i]) = <<Hello, WorldPadded>> =>
                   \E k \in 1..Len(ret) : ret[k].text = HelloWorld

\* the segments "Hello" and "  world  " of one cue, returned as "Hello world"
C8_Witness ==
    /\ call.fn = "parse_youtube_xml_captions"
    /\ raised = "none"
    /\ Len(CuesOf(call.xml_content)) = 1
    /\ SegmentRuns(CuesOf(call.xml_content)[1]) = <<Hello, WorldPadded>>
    /\ Len(ret) = 1
    /\ ret[1].text = HelloWorld

(***************************************************************************)
(* C9                                                                      *)
(***************************************************************************)
\* C9: the rendered SRT is one block (index, timecode line, text, blank line)
\* per kept cue and nothing else; the k-th block has the times and the text of
\* the k-th kept cue in document order, whatever the start times; a document
\* without cues parses to no record and renders to the empty text.
C9_BlocksInDocumentOrder ==
    /\ (/\ call.fn = "parse_youtube_xml_captions"
        /\ raised = "none"
        /\ CuesOf(call.xml_content) = <<>>) => ret = <<>>
    /\ locals.srt_content # None =>
          LET kept == KeptCues(InputDoc)
              captions == locals.captions
          IN /\ Len(captions) = Len(kept)
             /\ \A k \in 1..Len(captions) :
                   /\ captions[k].text = CueText(kept[k])
                   /\ CarriesTimes(captions[k], kept[k])
             /\ locals.srt_content.v = Blocks(captions, 1)
             /\ kept = <<>> => locals.srt_content.v = <<>>
             /\ raised = "none" => \E path \in Paths : fs[path] = locals.srt_content

\* two cues, the later one first in the document: written in that order
C9_Witness ==
    /\ call.fn = "save_custom_captions"
    /\ raised = "none"
    /\ Len(locals.captions) = 2
    /\ FLess(locals.captions[2].start_time, locals.captions[1].start_time)
    /\ fs[DefaultOutput] = locals.srt_content
    /\ IndexLines(locals.srt_content.v) = <<<<"1">>, <<"2">>>>

(***************************************************************************)
(* C10                                                                     *)
(***************************************************************************)
\* C10: a successful save_captions or download_captions writes the SRT text
\* to the file its output_file argument names, 'captions.srt' when there is no
\* such argument, and to no other path.
C10_WritesTheNamedFile ==
    (call.fn \in DownloadEntries /\ raised = "none") =>
       /\ fs[Param(call.output_file, DefaultOutput)] = locals.srt_content
       /\ \A path \in Paths \ {Param(call.output_file, DefaultOutput)} :
             fs[path] # locals.srt_content

====
